---- MODULE Spec2Model ----
(***************************************************************************)
(* Model of the tmux proof-worker orchestrator:                            *)
(*   scripts/proof-workers/tmux-orchestrate.sh  (launch)                   *)
(*   scripts/proof-workers/tmux-monitor.sh      (monitor loop)             *)
(* The monitor collects a status report, obtains a JSON array of actions   *)
(* from the decision maker (whose rules are the prompt of make_decisions)  *)
(* and executes the actions one at a time.  Worker processes run           *)
(* concurrently and are visible only through the process table, the       *)
(* signal file, the log file and the worktree.                             *)
(***************************************************************************)
EXTENDS Integers, Sequences, FiniteSets, TLC

\* ---------------------------------------------------------------- bounds
\* Number of workers of the model (the scripts run NUM_WORKERS = 5).
NumWorkers == 2
\* Monitor cycles explored (the loop's `cycle` counter is unbounded).
MaxCycles == 2
\* Commits a worker process makes on one issue branch.
MaxCommits == 1
\* Size a worker's log file grows to (one unit per write of the process).
MaxLogSize == 1

\* ------------------------------------------------------- program constants
\* Rule 3 of the decision prompt: "restart" (up to 3 retries), then "skip".
MaxRetries == 3

Workers == 1..NumWorkers

\* config/proof-issues.json, .initial_assignments (playbook: worker-1 on #52,
\* worker-2 on #56, worker-3 on #61, worker-4 on #55, worker-5 on #57).
initial_assignments == <<52, 56, 61, 55, 57>>

\* config/proof-issues.json, .issues in file order: the issues the workers are
\* launched on (wave 1), followed by wave 2: #53, which needs #52, and #59.
ConfigOrder == SubSeq(initial_assignments, 1, NumWorkers) \o <<53, 59>>

Issues == {ConfigOrder[k] : k \in 1..Len(ConfigOrder)}

wave(i) == IF i \in {53, 59} THEN 2 ELSE 1

priority(i) == IF i \in {52, 53} THEN 1 ELSE 2

depends_on(i) == IF i = 53 THEN {52} ELSE {}

\* "No issue" / "no worker" in a record field (JSON null).
Null == 0

ExitCodes == {0, 1}

VARIABLES
    issues,          \* CONFIG .issues: number -> the issue's object
    workers,         \* STATE_DIR/worker-N.json
    claude_running,  \* a claude process runs in the worker's tmux pane
    signal_file,     \* /tmp/orchestrator-signal-N: [exists, exit_code]
    log_stale,       \* /tmp/proof-worker-N.log has not grown for 15+ min
    log_size,        \* size of /tmp/proof-worker-N.log
    worktree_commits,\* commits of origin/main..HEAD in issue-M's worktree
    remote,          \* commits of branch proof/issue-M on origin
    event_log,       \* state/orchestrator-log.jsonl
    pc,              \* position of the launch script / monitor loop
    cycle,           \* the monitor's cycle counter
    decisions,       \* the monitor loop's local `decisions` (a JSON array)
    next_decision,   \* index i of the loop of execute_decisions (1-based)
    task_files,      \* tasks/backlog.md, active.md, completed.md: their lines
    status_report    \* /tmp/orchestrator-status-report.json

vars == <<issues, workers, claude_running, signal_file, log_stale, log_size,
          worktree_commits, remote, event_log, pc, cycle, decisions,
          next_decision, task_files, status_report>>

NoRecord == [issue_number |-> Null, status |-> "absent", retry_count |-> 0,
             last_log_size |-> 0, commits |-> 0]

NoSignal == [exists |-> FALSE, exit_code |-> 0]

\* The status the configuration file may carry for an issue that
\* initial_assignments hands to a worker: the launch script never reads or
\* writes .issues[].status.  Every other issue starts "pending".
LaunchedIssueStatus == {"pending", "in_progress"}

\* The issues that initial_assignments hands to the workers.
LaunchedIssues == {initial_assignments[w] : w \in Workers}

\* The task files of a checkout that keeps no tasks.
NoTaskFiles == [backlog |-> <<>>, active |-> <<>>, completed |-> <<>>]

\* No status report has been written yet.
NoReport == [workers |-> <<>>, issues |-> <<>>]

\* Nothing has run yet: no state files, processes, signal files or commits.
NothingRun ==
    /\ workers = [w \in Workers |-> NoRecord]
    /\ claude_running = [w \in Workers |-> FALSE]
    /\ signal_file = [w \in Workers |-> NoSignal]
    /\ log_stale = [w \in Workers |-> FALSE]
    /\ log_size = [w \in Workers |-> 0]
    /\ worktree_commits = [i \in Issues |-> 0]
    /\ remote = [i \in Issues |-> 0]
    /\ event_log = <<>>
    /\ cycle = 0
    /\ decisions = <<>>
    /\ next_decision = 1

Init ==
    /\ issues \in {f \in [Issues -> [status : {"pending", "in_progress"},
                                      assigned_worker : {Null},
                                      wave : {1, 2}, priority : {1, 2},
                                      depends_on : {depends_on(j) : j \in Issues}]] :
                     \A i \in Issues :
                        /\ f[i].status \in IF i \in LaunchedIssues
                                           THEN LaunchedIssueStatus
                                           ELSE {"pending"}
                        /\ f[i].wave = wave(i)
                        /\ f[i].priority = priority(i)
                        /\ f[i].depends_on = depends_on(i)}
    /\ NothingRun
    /\ status_report = NoReport
    /\ task_files = NoTaskFiles
    /\ pc = "launch"

\* ------------------------------------------------------------------ launch
\* init_state: one state file per worker.
init_state(w) ==
    [issue_number |-> initial_assignments[w], status |-> "pending",
     retry_count |-> 0, last_log_size |-> 0, commits |-> 0]

\* tmux-orchestrate.sh main without --dry-run: init_state, then launch_workers
\* (stale signal removed, state set to running, claude started in the pane),
\* then the monitor is started.
Launch ==
    /\ pc = "launch"
    /\ workers' = [w \in Workers |-> [init_state(w) EXCEPT !.status = "running"]]
    /\ signal_file' = [w \in Workers |-> NoSignal]
    /\ claude_running' = [w \in Workers |-> TRUE]
    /\ log_size' = [w \in Workers |-> 0]
    /\ pc' = "collect"
    /\ UNCHANGED <<issues, log_stale, worktree_commits, remote, event_log,
                   cycle, decisions, next_decision>>
    /\ UNCHANGED <<task_files, status_report>>

\* ---------------------------------------------------------- worker process
\* The claude process of worker w commits in the worktree it was started in.
WorkerCommit(w) ==
    /\ claude_running[w]
    /\ worktree_commits[workers[w].issue_number] < MaxCommits
    /\ worktree_commits' =
         [worktree_commits EXCEPT ![workers[w].issue_number] = @ + 1]
    /\ UNCHANGED <<issues, workers, claude_running, signal_file, log_stale, log_size,
                   remote, event_log, pc, cycle, decisions,
                   next_decision>>
    /\ UNCHANGED <<task_files, status_report>>

\* "claude -p ... > log 2>&1; echo $? > signal_file": the process ends and the
\* pane's shell writes its exit code.
WorkerExitWith(w, codes) ==
    /\ claude_running[w]
    /\ \E code \in codes :
         signal_file' = [signal_file EXCEPT ![w] =
                            [exists |-> TRUE, exit_code |-> code]]
    /\ claude_running' = [claude_running EXCEPT ![w] = FALSE]
    /\ UNCHANGED <<issues, workers, log_stale, log_size, worktree_commits, remote,
                   event_log, pc, cycle, decisions,
                   next_decision>>
    /\ UNCHANGED <<task_files, status_report>>

WorkerExit(w) == WorkerExitWith(w, ExitCodes)

\* The process of worker w is killed together with the pane's shell (the
\* operator kills the tmux window, or the shell's command list is aborted):
\* the process is gone and "echo $? > signal_file" never runs.
WorkerKilled(w) ==
    /\ claude_running[w]
    /\ claude_running' = [claude_running EXCEPT ![w] = FALSE]
    /\ UNCHANGED <<issues, workers, signal_file, log_stale, log_size,
                   worktree_commits, remote, event_log, pc, cycle, decisions,
                   next_decision>>
    /\ UNCHANGED <<task_files, status_report>>

\* The log of a running worker stops growing for more than 15 minutes.
LogStall(w) ==
    /\ claude_running[w]
    /\ ~log_stale[w]
    /\ log_stale' = [log_stale EXCEPT ![w] = TRUE]
    /\ UNCHANGED <<log_size, issues, workers, claude_running, signal_file,
                   worktree_commits, remote, event_log, pc, cycle, decisions, next_decision>>
    /\ UNCHANGED <<task_files, status_report>>

\* The running worker writes to its log: the file grows and is fresh again.
LogGrow(w) ==
    /\ claude_running[w]
    /\ log_stale[w] \/ log_size[w] < MaxLogSize
    /\ log_stale' = [log_stale EXCEPT ![w] = FALSE]
    /\ log_size' = [log_size EXCEPT ![w] =
                       IF @ < MaxLogSize THEN @ + 1 ELSE @]
    /\ UNCHANGED <<issues, workers, claude_running, signal_file,
                   worktree_commits, remote, event_log, pc, cycle, decisions,
                   next_decision>>
    /\ UNCHANGED <<task_files, status_report>>

\* ----------------------------------------------------------- status report
\* collect_worker_state: the JSON object built for one worker.  The state
\* file contributes issue_number and status only; retry_count is not part of
\* the report.
collect_worker_state(w) ==
    [worker_id |-> w,
     issue_number |-> workers[w].issue_number,
     status |-> workers[w].status,
     claude_running |-> claude_running[w],
     signal_file_exists |-> signal_file[w].exists,
     exit_code |-> signal_file[w].exit_code,
     log_stale |-> log_stale[w],
     log_size_bytes |-> log_size[w],
     new_commits |-> worktree_commits[workers[w].issue_number]]

build_status_report ==
    [workers |-> [w \in Workers |-> collect_worker_state(w)],
     issues |-> issues]

\* -------------------------------------------------------- get_next_issue
\* jq sort_by(.wave, .priority): a stable sort, equal keys keep file order.
key_le(cfg, i, j) ==
    \/ cfg[i].wave < cfg[j].wave
    \/ cfg[i].wave = cfg[j].wave /\ cfg[i].priority <= cfg[j].priority

RECURSIVE insert_sorted(_, _, _)
insert_sorted(cfg, sorted, i) ==
    IF sorted = <<>> THEN <<i>>
    ELSE IF key_le(cfg, sorted[Len(sorted)], i) THEN Append(sorted, i)
    ELSE Append(insert_sorted(cfg, SubSeq(sorted, 1, Len(sorted) - 1), i),
                sorted[Len(sorted)])

RECURSIVE sort_by(_, _)
sort_by(cfg, s) ==
    IF s = <<>> THEN <<>>
    ELSE insert_sorted(cfg, sort_by(cfg, SubSeq(s, 1, Len(s) - 1)), s[Len(s)])

\* get_next_issue: the first issue, by (wave, priority), that is "pending" in
\* cfg and whose depends_on are all in completed_issues; Null when none.
get_next_issue(cfg, completed_issues) ==
    LET sorted == sort_by(cfg, ConfigOrder)
        ready == SelectSeq(sorted,
                     LAMBDA i : /\ cfg[i].status = "pending"
                                /\ cfg[i].depends_on \subseteq completed_issues)
    IN IF ready = <<>> THEN Null ELSE ready[1]

\* --------------------------------------------------------- make_decisions
Action(a, w, i, n) == [action |-> a, worker |-> w, issue |-> i, new_issue |-> n]

\* Rule 1: the claude process is not running and the signal file exists.
finished(s) == ~s.claude_running /\ s.signal_file_exists

\* Variant of rule 2 that accepts exit_code 0 alone, without new commits.
finished_with_exit_zero(s) ==
    finished(s) /\ s.exit_code = 0

\* Rule 2: finished successfully (exit_code 0, has new commits).
finished_successfully(s) ==
    finished(s) /\ s.exit_code = 0 /\ s.new_commits > 0

\* Variant of rule 4 that never takes a running worker for stalled.
stalled_never(s) == s.claude_running /\ s.log_stale /\ ~s.claude_running

\* Variant of rule 4 that takes every running worker for stalled.
stalled_when_running(s) == s.claude_running

\* Rule 4: claude is running but the log has not grown in 15+ min.
stalled(s) == s.claude_running /\ s.log_stale

\* Rule 6 and "Dependency rules": the issues whose status is "completed" in
\* the issues array of the status report.
completed_in(report) == {i \in Issues : report.issues[i].status = "completed"}

\* The next available issue for a freed worker, given the issues this
\* decision list has already handed out (`taken`).
next_available(report, taken) ==
    get_next_issue([i \in Issues |->
                       IF i \in taken
                       THEN [report.issues[i] EXCEPT !.status = "in_progress"]
                       ELSE report.issues[i]],
                   completed_in(report))

\* The prompt's rules for one worker.  `retry` is the decision maker's choice
\* between "restart" and "skip" for a failed worker: rule 3 bounds the
\* restarts by 3, but the status report carries no retry_count.
worker_rules(s, next, retry) ==
    IF finished_successfully(s)
    THEN <<Action("push", s.worker_id, s.issue_number, Null),
           Action("mark_complete", Null, s.issue_number, Null),
           IF next # Null
           THEN Action("reassign", s.worker_id, Null, next)
           ELSE Action("idle", s.worker_id, Null, Null)>>
    ELSE IF finished(s)
    THEN IF retry = "restart"
         THEN <<Action("restart", s.worker_id, Null, Null)>>
         ELSE <<Action("skip", s.worker_id, s.issue_number, Null)>>
    ELSE IF stalled(s)
    THEN <<Action("restart", s.worker_id, Null, Null)>>
    ELSE IF s.claude_running
    THEN <<Action("noop", s.worker_id, Null, Null)>>
    ELSE <<>>

\* The decisions for workers w.. of the report.  Rule 2 names "the next
\* available issue" and no rule says whether an issue that this array has
\* already handed to another worker is still available: `exclusive` is the
\* decision maker's reading for each worker.
RECURSIVE decide_from(_, _, _, _, _)
decide_from(w, report, taken, retry, exclusive) ==
    IF w > NumWorkers THEN <<>>
    ELSE LET s == report.workers[w]
             next == next_available(report, IF exclusive[w] THEN taken ELSE {})
             given == IF finished_successfully(s) /\ next # Null
                      THEN {next} ELSE {}
         IN worker_rules(s, next, retry[w])
                \o decide_from(w + 1, report, taken \cup given, retry,
                               exclusive)

\* The JSON array of actions for a status report, workers in report order.
make_decisions(report, retry, exclusive) ==
    decide_from(1, report, {}, retry, exclusive)

\* ------------------------------------------------------------ monitor loop
\* Steps 1 and 2 of a cycle: build the status report, then make_decisions on it.
CollectAndDecideWithin(limit) ==
    /\ pc = "collect"
    /\ cycle < limit
    /\ cycle' = cycle + 1
    /\ \E retry \in [Workers -> {"restart", "skip"}],
          exclusive \in [Workers -> BOOLEAN] :
          decisions' = make_decisions(build_status_report, retry, exclusive)
    /\ next_decision' = 1
    /\ pc' = "exec"
    /\ UNCHANGED <<issues, workers, claude_running, signal_file, log_stale, log_size,
                   worktree_commits, remote, event_log>>
    /\ UNCHANGED <<task_files, status_report>>

CollectAndDecide == CollectAndDecideWithin(MaxCycles)

\* log_event: one line appended to the event log.
log_event(a, w, i, rc) ==
    Append(event_log, [action |-> a, worker |-> w, issue |-> i,
                       retry_count |-> rc])

\* Variant of execute_decisions that walks the array from the last decision.
DecisionFromLast == decisions[Len(decisions) + 1 - next_decision]

\* The signal file a restart of worker w leaves behind its rm -f.
interrupted_signal(w) ==
    IF claude_running[w]
    THEN {NoSignal} \cup {[exists |-> TRUE, exit_code |-> c] : c \in ExitCodes}
    ELSE {NoSignal}

\* execute_decisions: decision i of the array, i counting up from the first.
Decision == decisions[next_decision]

Executing(a) ==
    /\ pc = "exec"
    /\ next_decision <= Len(decisions)
    /\ Decision.action = a

ExecNoop ==
    /\ Executing("noop")
    /\ next_decision' = next_decision + 1
    /\ UNCHANGED <<issues, workers, claude_running, signal_file, log_stale, log_size,
                   worktree_commits, remote, event_log, pc, cycle, decisions>>
    /\ UNCHANGED <<task_files, status_report>>

\* push: git push of the issue's branch; a failed push is only warned about.
ExecPush ==
    /\ Executing("push")
    /\ \E pushed \in BOOLEAN :
         remote' = IF pushed
                   THEN [remote EXCEPT ![Decision.issue] =
                            worktree_commits[Decision.issue]]
                   ELSE remote
    /\ event_log' = log_event("push", Decision.worker, Decision.issue, Null)
    /\ next_decision' = next_decision + 1
    /\ UNCHANGED <<issues, workers, claude_running, signal_file, log_stale, log_size,
                   worktree_commits, pc, cycle, decisions>>
    /\ UNCHANGED <<task_files, status_report>>

ExecMarkComplete ==
    /\ Executing("mark_complete")
    /\ issues' = [issues EXCEPT ![Decision.issue].status = "completed"]
    /\ event_log' = log_event("mark_complete", Null, Decision.issue, Null)
    /\ next_decision' = next_decision + 1
    /\ UNCHANGED <<workers, claude_running, signal_file, log_stale, log_size,
                   worktree_commits, remote, pc, cycle,
                   decisions>>
    /\ UNCHANGED <<task_files, status_report>>

\* Variant of reassign that keeps the worker's retry_count.
ExecReassignKeepingRetries ==
    /\ Executing("reassign")
    /\ LET w == Decision.worker
           n == Decision.new_issue
       IN IF n = Null
          THEN UNCHANGED <<issues, workers, claude_running, signal_file,
                           log_stale, log_size, event_log>>
          ELSE /\ workers' = [workers EXCEPT ![w] =
                     [issue_number |-> n, status |-> "running",
                      retry_count |-> workers[w].retry_count, last_log_size |-> 0, commits |-> 0]]
               /\ issues' = [issues EXCEPT ![n].status = "in_progress",
                                           ![n].assigned_worker = w]
               /\ signal_file' = [signal_file EXCEPT ![w] = NoSignal]
               /\ log_stale' = [log_stale EXCEPT ![w] = FALSE]
               /\ log_size' = [log_size EXCEPT ![w] = 0]
               /\ claude_running' = [claude_running EXCEPT ![w] = TRUE]
               /\ event_log' = log_event("reassign", w, n, Null)
    /\ next_decision' = next_decision + 1
    /\ UNCHANGED <<worktree_commits, remote, pc, cycle,
                   decisions>>
    /\ UNCHANGED <<task_files, status_report>>

ExecReassign ==
    /\ Executing("reassign")
    /\ LET w == Decision.worker
           n == Decision.new_issue
       IN IF n = Null
          THEN UNCHANGED <<issues, workers, claude_running, signal_file,
                           log_stale, log_size, event_log>>
          ELSE /\ workers' = [workers EXCEPT ![w] =
                     [issue_number |-> n, status |-> "running",
                      retry_count |-> 0, last_log_size |-> 0, commits |-> 0]]
               /\ issues' = [issues EXCEPT ![n].status = "in_progress",
                                           ![n].assigned_worker = w]
               /\ signal_file' = [signal_file EXCEPT ![w] = NoSignal]
               /\ log_stale' = [log_stale EXCEPT ![w] = FALSE]
               /\ log_size' = [log_size EXCEPT ![w] = 0]
               /\ claude_running' = [claude_running EXCEPT ![w] = TRUE]
               /\ event_log' = log_event("reassign", w, n, Null)
    /\ next_decision' = next_decision + 1
    /\ UNCHANGED <<worktree_commits, remote, pc, cycle,
                   decisions>>
    /\ UNCHANGED <<task_files, status_report>>

\* restart: C-c to the pane, sleep 2, rm -f of the signal file, then the new
\* command line.  A process that is still in the pane ends on the C-c and the
\* pane's shell then writes its exit code ("; echo $? > signal_file"): within
\* the 2 seconds, and the rm -f removes the file, or after them, and the file
\* of the ended run is left behind the rm -f.
ExecRestart ==
    /\ Executing("restart")
    /\ LET w == Decision.worker
           retry_count == workers[w].retry_count + 1
       IN /\ workers' = [workers EXCEPT ![w].retry_count = retry_count,
                                        ![w].status = "running"]
          /\ \E left \in interrupted_signal(w) :
                signal_file' = [signal_file EXCEPT ![w] = left]
          /\ claude_running' = [claude_running EXCEPT ![w] = TRUE]
          /\ event_log' = log_event("restart", w, workers[w].issue_number,
                                    retry_count)
    /\ next_decision' = next_decision + 1
    /\ UNCHANGED <<issues, log_stale, log_size, worktree_commits, remote, pc, cycle, decisions>>
    /\ UNCHANGED <<task_files, status_report>>

ExecSkip ==
    /\ Executing("skip")
    /\ workers' = [workers EXCEPT ![Decision.worker].status = "failed"]
    /\ issues' = [issues EXCEPT ![Decision.issue].status = "failed"]
    /\ event_log' = log_event("skip", Decision.worker, Decision.issue, Null)
    /\ next_decision' = next_decision + 1
    /\ UNCHANGED <<claude_running, signal_file, log_stale, log_size, worktree_commits,
                   remote, pc, cycle, decisions>>
    /\ UNCHANGED <<task_files, status_report>>

\* Variant of idle that also removes the idle worker's signal file.
ExecIdleClearingSignal ==
    /\ Executing("idle")
    /\ workers' = [workers EXCEPT ![Decision.worker].status = "idle"]
    /\ signal_file' = [signal_file EXCEPT ![Decision.worker] = NoSignal]
    /\ next_decision' = next_decision + 1
    /\ UNCHANGED <<issues, claude_running, log_stale, log_size,
                   worktree_commits, remote, event_log, pc, cycle, decisions>>
    /\ UNCHANGED <<task_files, status_report>>

ExecIdle ==
    /\ Executing("idle")
    /\ workers' = [workers EXCEPT ![Decision.worker].status = "idle"]
    /\ next_decision' = next_decision + 1
    /\ UNCHANGED <<issues, claude_running, signal_file, log_stale, log_size,
                   worktree_commits, remote, event_log, pc, cycle, decisions>>
    /\ UNCHANGED <<task_files, status_report>>

\* Variant of all_done that counts the issues only.
all_done_by_issues ==
    \A i \in Issues : issues[i].status \notin {"pending", "in_progress"}

\* all_done: no issue is pending or in_progress and no worker is running.
all_done ==
    /\ \A i \in Issues : issues[i].status \notin {"pending", "in_progress"}
    /\ \A w \in Workers : workers[w].status # "running"

\* Step 4 of a cycle, after the last decision: shut down or sleep.  The
\* loop's local `decisions` is dead from here on and is assigned anew by the
\* next cycle.
EndCycle ==
    /\ pc = "exec"
    /\ next_decision > Len(decisions)
    /\ IF all_done
       THEN /\ event_log' = log_event("shutdown", Null, Null, Null)
            /\ pc' = "done"
       ELSE /\ event_log' = event_log
            /\ pc' = "collect"
    /\ decisions' = <<>>
    /\ next_decision' = 1
    /\ UNCHANGED <<issues, workers, claude_running, signal_file, log_stale, log_size,
                   worktree_commits, remote, cycle>>
    /\ UNCHANGED <<task_files, status_report>>

Next ==
    \/ Launch
    \/ \E w \in Workers : WorkerCommit(w)
    \/ \E w \in Workers : WorkerExit(w)
    \/ \E w \in Workers : LogStall(w)
    \/ \E w \in Workers : LogGrow(w)
    \/ CollectAndDecide
    \/ ExecNoop
    \/ ExecPush
    \/ ExecMarkComplete
    \/ ExecReassign
    \/ ExecRestart
    \/ ExecSkip
    \/ ExecIdle
    \/ EndCycle

Spec == Init /\ [][Next]_vars

\* Cycles explored when only worker 1's process is followed.
MaxStallCycles == 4

\* The runs in which worker 2's process stays up with a growing log and
\* worker 1's process commits, exits, stalls and resumes, over more cycles.
NextStall ==
    \/ Launch
    \/ WorkerCommit(1)
    \/ WorkerExit(1)
    \/ LogStall(1)
    \/ LogGrow(1)
    \/ CollectAndDecideWithin(MaxStallCycles)
    \/ ExecNoop
    \/ ExecPush
    \/ ExecMarkComplete
    \/ ExecReassign
    \/ ExecRestart
    \/ ExecSkip
    \/ ExecIdle
    \/ EndCycle

SpecStall == Init /\ [][NextStall]_vars

\* Cycles explored when the workers' logs are not followed.
MaxLongCycles == 3

\* The runs in which every worker's log keeps growing while its process runs
\* (no worker is ever taken for stalled), over more cycles.
NextLong ==
    \/ Launch
    \/ \E w \in Workers : WorkerCommit(w)
    \/ \E w \in Workers : WorkerExit(w)
    \/ CollectAndDecideWithin(MaxLongCycles)
    \/ ExecNoop
    \/ ExecPush
    \/ ExecMarkComplete
    \/ ExecReassign
    \/ ExecRestart
    \/ ExecSkip
    \/ ExecIdle
    \/ EndCycle

SpecLong == Init /\ [][NextLong]_vars

\* The runs of NextLong in which every worker process exits with code 0.
NextCalm ==
    \/ Launch
    \/ \E w \in Workers : WorkerCommit(w)
    \/ \E w \in Workers : WorkerExitWith(w, {0})
    \/ CollectAndDecideWithin(MaxLongCycles)
    \/ ExecNoop
    \/ ExecPush
    \/ ExecMarkComplete
    \/ ExecReassign
    \/ ExecRestart
    \/ ExecSkip
    \/ ExecIdle
    \/ EndCycle

\* The monitor's steps: the loop of main never stops between two steps
\* (sleep and the decision maker return).
MonitorStep ==
    \/ CollectAndDecideWithin(MaxLongCycles)
    \/ ExecNoop
    \/ ExecPush
    \/ ExecMarkComplete
    \/ ExecReassign
    \/ ExecRestart
    \/ ExecSkip
    \/ ExecIdle
    \/ EndCycle

\* The configurations in which every launched issue is marked in_progress.
InitMarked ==
    /\ Init
    /\ \A i \in LaunchedIssues : issues[i].status = "in_progress"

SpecCalmFair == InitMarked /\ [][NextCalm]_vars /\ WF_vars(MonitorStep)

\* The runs of SpecCalmFair in which, besides, every worker process that runs
\* exits in the end.
SpecAllFair ==
    /\ InitMarked
    /\ [][NextCalm]_vars
    /\ WF_vars(MonitorStep)
    /\ \A w \in Workers : WF_vars(WorkerExitWith(w, {0}))

\* The runs in which worker processes may also be killed without writing a
\* signal file; the workers' logs are not followed.
NextKill ==
    \/ Launch
    \/ \E w \in Workers : WorkerCommit(w)
    \/ \E w \in Workers : WorkerExit(w)
    \/ \E w \in Workers : WorkerKilled(w)
    \/ CollectAndDecide
    \/ ExecNoop
    \/ ExecPush
    \/ ExecMarkComplete
    \/ ExecReassign
    \/ ExecRestart
    \/ ExecSkip
    \/ ExecIdle
    \/ EndCycle

SpecKill == Init /\ [][NextKill]_vars

\* ------------------------------------------------ monitor killed and restarted
\* The writes of one reassign, in the order of the code: the worker's state
\* file (jq ... && mv), the configuration (jq ... && mv), then the signal
\* file, the log, the new process and the event.  pc records how far the
\* executor has come inside the action.
ReassignWriteState ==
    /\ Executing("reassign")
    /\ LET w == Decision.worker
           n == Decision.new_issue
       IN IF n = Null
          THEN /\ next_decision' = next_decision + 1
               /\ UNCHANGED <<workers, pc>>
          ELSE /\ workers' = [workers EXCEPT ![w] =
                     [issue_number |-> n, status |-> "running",
                      retry_count |-> 0, last_log_size |-> 0, commits |-> 0]]
               /\ pc' = "reassign_state"
               /\ UNCHANGED next_decision
    /\ UNCHANGED <<issues, claude_running, signal_file, log_stale, log_size,
                   worktree_commits, remote, event_log, cycle, decisions>>
    /\ UNCHANGED <<task_files, status_report>>

ReassignWriteConfig ==
    /\ pc = "reassign_state"
    /\ issues' = [issues EXCEPT ![Decision.new_issue].status = "in_progress",
                                ![Decision.new_issue].assigned_worker =
                                    Decision.worker]
    /\ pc' = "reassign_config"
    /\ UNCHANGED <<workers, claude_running, signal_file, log_stale, log_size,
                   worktree_commits, remote, event_log, cycle, decisions,
                   next_decision>>
    /\ UNCHANGED <<task_files, status_report>>

ReassignLaunchWorker ==
    /\ pc = "reassign_config"
    /\ LET w == Decision.worker
       IN /\ signal_file' = [signal_file EXCEPT ![w] = NoSignal]
          /\ log_stale' = [log_stale EXCEPT ![w] = FALSE]
          /\ log_size' = [log_size EXCEPT ![w] = 0]
          /\ claude_running' = [claude_running EXCEPT ![w] = TRUE]
          /\ event_log' = log_event("reassign", w, Decision.new_issue, Null)
    /\ pc' = "exec"
    /\ next_decision' = next_decision + 1
    /\ UNCHANGED <<issues, workers, worktree_commits, remote, cycle, decisions>>
    /\ UNCHANGED <<task_files, status_report>>

\* The writes of one restart: the state file, then C-c, rm -f of the signal
\* file, the new process and the event.
RestartWriteState ==
    /\ Executing("restart")
    /\ workers' = [workers EXCEPT
                      ![Decision.worker].retry_count =
                          workers[Decision.worker].retry_count + 1,
                      ![Decision.worker].status = "running"]
    /\ pc' = "restart_state"
    /\ UNCHANGED <<issues, claude_running, signal_file, log_stale, log_size,
                   worktree_commits, remote, event_log, cycle, decisions,
                   next_decision>>
    /\ UNCHANGED <<task_files, status_report>>

RestartLaunchWorker ==
    /\ pc = "restart_state"
    /\ LET w == Decision.worker
       IN /\ \E left \in interrupted_signal(w) :
                signal_file' = [signal_file EXCEPT ![w] = left]
          /\ claude_running' = [claude_running EXCEPT ![w] = TRUE]
          /\ event_log' = log_event("restart", w, workers[w].issue_number,
                                    workers[w].retry_count)
    /\ pc' = "exec"
    /\ next_decision' = next_decision + 1
    /\ UNCHANGED <<issues, workers, log_stale, log_size, worktree_commits,
                   remote, cycle, decisions>>
    /\ UNCHANGED <<task_files, status_report>>

\* The monitor process is killed while it executes a cycle's actions and is
\* started again: main begins with its first step, the locals of the killed
\* run are gone, and the files and the workers' panes are as the killed run
\* left them.  `cycle` goes on counting the cycles of all the monitor's runs.
MonitorKilled ==
    /\ pc \in {"exec", "reassign_state", "reassign_config", "restart_state"}
    /\ pc' = "collect"
    /\ decisions' = <<>>
    /\ next_decision' = 1
    /\ UNCHANGED <<issues, workers, claude_running, signal_file, log_stale,
                   log_size, worktree_commits, remote, event_log, cycle>>
    /\ UNCHANGED <<task_files, status_report>>

NextCrash ==
    \/ Launch
    \/ \E w \in Workers : WorkerCommit(w)
    \/ \E w \in Workers : WorkerExit(w)
    \/ CollectAndDecide
    \/ ExecNoop
    \/ ExecPush
    \/ ExecMarkComplete
    \/ ReassignWriteState
    \/ ReassignWriteConfig
    \/ ReassignLaunchWorker
    \/ RestartWriteState
    \/ RestartLaunchWorker
    \/ ExecSkip
    \/ ExecIdle
    \/ EndCycle
    \/ MonitorKilled

SpecCrash == Init /\ [][NextCrash]_vars

\* ------------------------------------------------- configurations as written
\* An issue number that no issue of the configuration carries.
UndefinedIssue == 99

\* The depends_on arrays a configuration file may give to an issue that is
\* not launched at once: none, one of the issues, or an undefined number.
DependencyChoices == {{}, {52}, {53}, {59}, {UndefinedIssue}}

MaxConfigCycles == 1

\* load_config reads repo_path, worktree_base and branch_prefix and nothing of
\* .issues: every configuration file is taken as it is.
InitConfig ==
    /\ \E st \in [LaunchedIssues -> LaunchedIssueStatus],
          deps \in [Issues \ LaunchedIssues -> DependencyChoices] :
          issues = [i \in Issues |->
                       [status |-> IF i \in LaunchedIssues THEN st[i]
                                   ELSE "pending",
                        assigned_worker |-> Null,
                        wave |-> wave(i), priority |-> priority(i),
                        depends_on |-> IF i \in LaunchedIssues
                                       THEN depends_on(i) ELSE deps[i]]]
    /\ NothingRun
    /\ status_report = NoReport
    /\ task_files = NoTaskFiles
    /\ pc = "launch"

NextConfig ==
    \/ Launch
    \/ \E w \in Workers : WorkerCommit(w)
    \/ \E w \in Workers : WorkerExit(w)
    \/ CollectAndDecideWithin(MaxConfigCycles)
    \/ ExecNoop
    \/ ExecPush
    \/ ExecMarkComplete
    \/ ExecReassign
    \/ ExecRestart
    \/ ExecSkip
    \/ ExecIdle
    \/ EndCycle

SpecConfig == InitConfig /\ [][NextConfig]_vars

\* ------------------------------------------------------------------ dry run
\* tmux kill-session, as create_tmux_session advises for a session that still
\* exists: the panes and the monitor end with the session, the files stay.
KillSession ==
    /\ pc # "launch"
    /\ claude_running' = [w \in Workers |-> FALSE]
    /\ pc' = "launch"
    /\ decisions' = <<>>
    /\ next_decision' = 1
    /\ UNCHANGED <<issues, workers, signal_file, log_stale, log_size,
                   worktree_commits, remote, event_log, cycle>>
    /\ UNCHANGED <<task_files, status_report>>

\* tmux-orchestrate.sh main with --dry-run and no session: every step that
\* is inside an `if DRY_RUN == false` is left out; launch_workers' rm -f of
\* the signal file is outside of it.
DryRun ==
    /\ pc = "launch"
    /\ signal_file' = [w \in Workers |-> NoSignal]
    /\ UNCHANGED <<issues, workers, claude_running, log_stale, log_size,
                   worktree_commits, remote, event_log, pc, cycle, decisions,
                   next_decision>>
    /\ UNCHANGED <<task_files, status_report>>

MaxDryRunCycles == 1

MaxRaceCycles == 1

NextDryRun ==
    \/ Launch
    \/ DryRun
    \/ KillSession
    \/ \E w \in Workers : WorkerCommit(w)
    \/ \E w \in Workers : WorkerExit(w)
    \/ CollectAndDecideWithin(MaxDryRunCycles)
    \/ ExecNoop
    \/ ExecPush
    \/ ExecMarkComplete
    \/ ExecReassign
    \/ ExecRestart
    \/ ExecSkip
    \/ ExecIdle
    \/ EndCycle

SpecDryRun == Init /\ [][NextDryRun]_vars

\* ------------------------------------------------- snapshot and execution
\* Steps 1 and 2 of a cycle with the report that main writes to
\* /tmp/orchestrator-status-report.json followed as well.
SnapshotAndDecide ==
    /\ pc = "collect"
    /\ cycle < MaxRaceCycles
    /\ cycle' = cycle + 1
    /\ status_report' = build_status_report
    /\ \E retry \in [Workers -> {"restart", "skip"}],
          exclusive \in [Workers -> BOOLEAN] :
          decisions' = make_decisions(build_status_report, retry, exclusive)
    /\ next_decision' = 1
    /\ pc' = "exec"
    /\ UNCHANGED <<issues, workers, claude_running, signal_file, log_stale, log_size,
                   worktree_commits, remote, event_log, task_files>>

NextRace ==
    \/ Launch
    \/ \E w \in Workers : WorkerCommit(w)
    \/ \E w \in Workers : WorkerExit(w)
    \/ \E w \in Workers : LogStall(w)
    \/ SnapshotAndDecide
    \/ ExecNoop
    \/ ExecPush
    \/ ExecMarkComplete
    \/ ExecReassign
    \/ ExecRestart
    \/ ExecSkip
    \/ ExecIdle
    \/ EndCycle

SpecRace == Init /\ [][NextRace]_vars

\* ------------------------------------------------ unusable decision output
MaxOutputCycles == 1

\* make_decisions on a reply in which no JSON is found: the array is [].
DecideUnparseable ==
    /\ pc = "collect"
    /\ cycle < MaxOutputCycles
    /\ cycle' = cycle + 1
    /\ decisions' = <<>>
    /\ next_decision' = 1
    /\ pc' = "exec"
    /\ UNCHANGED <<issues, workers, claude_running, signal_file, log_stale,
                   log_size, worktree_commits, remote, event_log, task_files,
                   status_report>>

\* make_decisions on a reply whose json block is valid JSON and not an array
\* (an object such as {"decisions": [...]}): the block is passed on as it
\* is, execute_decisions takes jq 'length' of it for the count, and jq ".[0]"
\* fails on it; under set -e the monitor script ends there.
DecideNotArray ==
    /\ pc = "collect"
    /\ cycle < MaxOutputCycles
    /\ cycle' = cycle + 1
    /\ decisions' = <<>>
    /\ next_decision' = 1
    /\ pc' = "crashed"
    /\ UNCHANGED <<issues, workers, claude_running, signal_file, log_stale,
                   log_size, worktree_commits, remote, event_log, task_files,
                   status_report>>

\* make_decisions on a reply whose array begins with an action of a type
\* that execute_decision does not know.
DecideWithUnknown ==
    /\ pc = "collect"
    /\ cycle < MaxOutputCycles
    /\ cycle' = cycle + 1
    /\ \E w \in Workers, retry \in [Workers -> {"restart", "skip"}],
          exclusive \in [Workers -> BOOLEAN] :
          decisions' = <<Action("unknown", w, Null, Null)>>
                          \o make_decisions(build_status_report, retry, exclusive)
    /\ next_decision' = 1
    /\ pc' = "exec"
    /\ UNCHANGED <<issues, workers, claude_running, signal_file, log_stale,
                   log_size, worktree_commits, remote, event_log, task_files,
                   status_report>>

KnownActions == {"noop", "push", "mark_complete", "reassign", "restart",
                 "skip", "idle"}

\* The default branch of execute_decision: a warning in the monitor's log.
ExecUnknown ==
    /\ pc = "exec"
    /\ next_decision <= Len(decisions)
    /\ Decision.action \notin KnownActions
    /\ next_decision' = next_decision + 1
    /\ UNCHANGED <<issues, workers, claude_running, signal_file, log_stale,
                   log_size, worktree_commits, remote, event_log, pc, cycle,
                   decisions, task_files, status_report>>

NextOutput ==
    \/ Launch
    \/ \E w \in Workers : WorkerCommit(w)
    \/ \E w \in Workers : WorkerExit(w)
    \/ CollectAndDecideWithin(MaxOutputCycles)
    \/ DecideUnparseable
    \/ DecideNotArray
    \/ DecideWithUnknown
    \/ ExecUnknown
    \/ ExecNoop
    \/ ExecPush
    \/ ExecMarkComplete
    \/ ExecReassign
    \/ ExecRestart
    \/ ExecSkip
    \/ ExecIdle
    \/ EndCycle

SpecOutput == Init /\ [][NextOutput]_vars

\* The configurations get_next_issue is applied to: every issue with any
\* status, wave and priority.
Statuses == {"pending", "in_progress", "completed", "failed"}

InitSelect ==
    /\ \E f \in [Issues -> [status : Statuses, assigned_worker : {Null},
                              wave : {1, 2}, priority : {1, 2}]] :
          issues = [i \in Issues |->
                       [status |-> f[i].status, assigned_worker |-> Null,
                        wave |-> f[i].wave, priority |-> f[i].priority,
                        depends_on |-> depends_on(i)]]
    /\ NothingRun
    /\ status_report = NoReport
    /\ task_files = NoTaskFiles
    /\ pc = "select"

\* get_next_issue is called with the numbers of the completed issues; its
\* result is kept as the new_issue of a reassign.
SelectNext ==
    /\ pc = "select"
    /\ decisions' =
          <<Action("reassign", Null, Null,
                   get_next_issue(issues,
                       {i \in Issues : issues[i].status = "completed"}))>>
    /\ pc' = "selected"
    /\ UNCHANGED <<issues, workers, claude_running, signal_file, log_stale,
                   log_size, worktree_commits, remote, event_log, cycle,
                   next_decision>>
    /\ UNCHANGED <<task_files, status_report>>

SpecSelect == InitSelect /\ [][SelectNext]_vars

\* ------------------------------------------------------------ task manager
\* A line of a task file, by what taskHeaderRe, fieldRe and TrimSpace make of
\* it: a header "### [id] text", a field "- **key**: text", other text, or a
\* blank line.
HeaderLine(id, text) == [kind |-> "header", id |-> id, text |-> text]

FieldLine(key, text) == [kind |-> "field", id |-> key, text |-> text]

TextLine == [kind |-> "text", id |-> "", text |-> "x"]

BlankLine == [kind |-> "blank", id |-> "", text |-> ""]

TaskIds == {"A", "B"}

\* What follows "### [id]" in a header that the files are given with: a
\* title, or white space only (two characters or more, so that the header
\* expression still matches).
HeaderTexts == {"t", "  "}

MaxFileLines == 3

\* strings.TrimSpace
TrimSpace(text) == IF text = "  " THEN "" ELSE text

\* fmt.Sprintf("### [%s] %s", ID, Title) as a line of a file: with an empty
\* title the line ends in "] " and taskHeaderRe, which wants white space and
\* one more character after the bracket, does not match it.
header_entry(id, title) ==
    IF title = "" THEN TextLine ELSE HeaderLine(id, title)

NoTask == [ID |-> "", Title |-> "", Repo |-> ""]

\* ParseTasks, from line k on, with the tasks parsed and the current task.
\* Of the fields, repo stands for repo, type and description alike.
RECURSIVE parse_from(_, _, _, _)
parse_from(lines, k, tasks, current) ==
    LET closed == IF current = NoTask THEN tasks ELSE Append(tasks, current)
    IN IF k > Len(lines) THEN closed
       ELSE IF lines[k].kind = "header"
       THEN parse_from(lines, k + 1, closed,
                       [ID |-> lines[k].id, Title |-> TrimSpace(lines[k].text),
                        Repo |-> ""])
       ELSE IF current # NoTask /\ lines[k].kind = "field" /\ lines[k].id = "repo"
       THEN parse_from(lines, k + 1, tasks,
                       [current EXCEPT !.Repo = TrimSpace(lines[k].text)])
       ELSE parse_from(lines, k + 1, tasks, current)

ParseTasks(lines) == parse_from(lines, 1, <<>>, NoTask)

\* removeTaskFromFile, from line k on, with the lines kept and the skip flag.
RECURSIVE remove_from(_, _, _, _, _)
remove_from(lines, id, k, result, skip) ==
    IF k > Len(lines) THEN result
    ELSE LET line == lines[k]
         IN IF line.kind = "header" /\ line.id = id
            THEN remove_from(lines, id, k + 1, result, TRUE)
            ELSE IF line.kind = "header"
            THEN remove_from(lines, id, k + 1, Append(result, line), FALSE)
            ELSE IF skip /\ line.kind \in {"field", "blank"}
            THEN remove_from(lines, id, k + 1, result, TRUE)
            ELSE remove_from(lines, id, k + 1, Append(result, line), FALSE)

removeTaskFromFile(lines, id) == remove_from(lines, id, 1, <<>>, FALSE)

\* The entry StartTask and CompleteTask append for the task they found.
task_entry(found, stamp) ==
    <<BlankLine, header_entry(found.ID, found.Title)>>
        \o (IF found.Repo # "" THEN <<FieldLine("repo", found.Repo)>> ELSE <<>>)
        \o stamp

Found(lines, id) == SelectSeq(ParseTasks(lines), LAMBDA t : t.ID = id)

StartTask(id) ==
    /\ pc = "tasks"
    /\ Found(task_files.backlog, id) # <<>>
    /\ task_files' =
          [task_files EXCEPT
              !.active = @ \o task_entry(Found(task_files.backlog, id)[1],
                                         <<FieldLine("assigned", "in-progress"),
                                           FieldLine("started", "date")>>),
              !.backlog = removeTaskFromFile(@, id)]
    /\ UNCHANGED <<issues, workers, claude_running, signal_file, log_stale,
                   log_size, worktree_commits, remote, event_log, pc, cycle,
                   decisions, next_decision>>
    /\ UNCHANGED status_report

CompleteTask(id) ==
    /\ pc = "tasks"
    /\ Found(task_files.active, id) # <<>>
    /\ task_files' =
          [task_files EXCEPT
              !.completed = @ \o task_entry(Found(task_files.active, id)[1],
                                            <<FieldLine("completed", "date")>>),
              !.active = removeTaskFromFile(@, id)]
    /\ UNCHANGED <<issues, workers, claude_running, signal_file, log_stale,
                   log_size, worktree_commits, remote, event_log, pc, cycle,
                   decisions, next_decision>>
    /\ UNCHANGED status_report

\* The lines a task file is given with.
FileLines ==
    {HeaderLine(id, text) : id \in TaskIds, text \in HeaderTexts}
        \cup {FieldLine("repo", "r"), TextLine, BlankLine}

TaskFile == UNION {[1..n -> FileLines] : n \in 0..MaxFileLines}

InitTasks ==
    /\ issues = [i \in Issues |->
                    [status |-> "pending", assigned_worker |-> Null,
                     wave |-> wave(i), priority |-> priority(i),
                     depends_on |-> depends_on(i)]]
    /\ NothingRun
    /\ status_report = NoReport
    /\ \E b \in TaskFile :
          task_files = [backlog |-> b, active |-> <<>>, completed |-> <<>>]
    /\ pc = "tasks"

NextTasks ==
    \/ \E id \in TaskIds : StartTask(id)
    \/ \E id \in TaskIds : CompleteTask(id)

SpecTasks == InitTasks /\ [][NextTasks]_vars

\* ------------------------------------------------------------------ claims
Holders(i) == {w \in Workers : workers[w].issue_number = i}

Launched == pc # "launch"

\* C1: after launch and any sequence of monitor cycles, every issue whose
\* status is in_progress is held by exactly one worker record, and no two
\* worker records hold the same issue.
C1_NoDoubleAssignment ==
    Launched =>
        /\ \A i \in Issues :
              issues[i].status = "in_progress" => Cardinality(Holders(i)) = 1
        /\ \A v, w \in Workers :
              v # w => workers[v].issue_number # workers[w].issue_number

\* C2: whenever a reassign is executed and sets an issue to in_progress, every
\* id in that issue's depends_on has status completed at that moment.
C2_DependencyGating ==
    [][(ExecReassign /\ Decision.new_issue # Null)
          => \A d \in depends_on(Decision.new_issue) :
                issues[d].status = "completed"]_vars

\* The snapshot of worker w that the cycle starting in this state decides on.
Observed(w) == collect_worker_state(w)

DecisionsFor(ds, w) == SelectSeq(ds, LAMBDA d : d.worker = w)

Emits(ds, a, i) == \E k \in 1..Len(ds) : ds[k].action = a /\ ds[k].issue = i

ObservedFailed(w) ==
    /\ ~Observed(w).claude_running
    /\ Observed(w).signal_file_exists
    /\ (Observed(w).exit_code # 0 \/ Observed(w).new_commits = 0)

\* C4: for a worker observed failed, the cycle's decision for that worker is
\* restart when retry_count < MaxRetries and skip otherwise, and no push or
\* mark_complete is emitted for its issue.
C4_FailedWorkerPolicy ==
    [][CollectAndDecide =>
         \A w \in Workers :
            ObservedFailed(w) =>
               /\ Len(DecisionsFor(decisions', w)) = 1
               /\ DecisionsFor(decisions', w)[1].action =
                     IF workers[w].retry_count < MaxRetries
                     THEN "restart" ELSE "skip"
               /\ ~Emits(decisions', "push", Observed(w).issue_number)
               /\ ~Emits(decisions', "mark_complete",
                         Observed(w).issue_number)]_vars

\* C5: in every reachable state each worker's retry_count is at most
\* MaxRetries.
C5_BoundedRetry ==
    \A w \in Workers : workers[w].retry_count <= MaxRetries

\* C6: for a (worker, issue) pair retry_count never decreases; it changes
\* only by a restart of that worker, which adds exactly 1, and by a reassign
\* of that worker to a different issue, which sets it to 0.
C6_RetryAccounting ==
    [][Launched =>
         \A w \in Workers :
            LET before == workers[w]
                after == workers'[w]
                restarted == ExecRestart /\ Decision.worker = w
                reassigned == /\ ExecReassign
                              /\ Decision.worker = w
                              /\ Decision.new_issue # Null
            IN /\ restarted => after.retry_count = before.retry_count + 1
               /\ (reassigned /\ after.issue_number # before.issue_number)
                     => after.retry_count = 0
               /\ after.issue_number = before.issue_number =>
                     after.retry_count >= before.retry_count
               /\ after.retry_count # before.retry_count =>
                     \/ restarted
                     \/ reassigned
                           /\ after.issue_number # before.issue_number]_vars

\* C7: for every issue, status is in_progress iff assigned_worker is set; an
\* issue a worker was launched on is in_progress.
C7_IssueInvariant ==
    Launched =>
        /\ \A i \in Issues :
              issues[i].status = "in_progress"
                 <=> issues[i].assigned_worker # Null
        /\ \A w \in Workers :
              workers[w].status = "running" /\ cycle = 0 =>
                 issues[workers[w].issue_number].status = "in_progress"

\* The decisions of the current array that execute_decisions has executed.
Executed == SubSeq(decisions, 1, next_decision - 1)

\* The actions whose execution appends an event to the event log.
Logged(ds) ==
    SelectSeq(ds, LAMBDA d : d.action \in {"push", "mark_complete",
                                           "reassign", "restart", "skip"})

\* C8: the actions of a cycle are executed one at a time in the order they
\* were emitted: the events the cycle has logged so far are those of the
\* executed prefix of the array, in array order; and when a reassign has just
\* been executed, every mark_complete that precedes it in the array has been
\* applied: the issue is completed, unless an action between the two wrote
\* the issue's status again (a skip of it, or a reassign to it).
C8_EmissionOrder ==
    pc = "exec" =>
       LET done == Logged(Executed)
           n == Len(done)
           base == Len(event_log) - n
           last == Len(Executed)
       IN /\ base >= 0
          /\ \A k \in 1..n :
                /\ event_log[base + k].action = done[k].action
                /\ done[k].action # "mark_complete" =>
                      event_log[base + k].worker = done[k].worker
                /\ done[k].action \in {"push", "mark_complete", "skip"} =>
                      event_log[base + k].issue = done[k].issue
          /\ \A j \in 1..last :
                (/\ Executed[j].action = "mark_complete"
                 /\ Executed[last].action = "reassign"
                 /\ j < last
                 /\ \A m \in (j + 1)..last :
                       /\ ~(Executed[m].action = "skip"
                              /\ Executed[m].issue = Executed[j].issue)
                       /\ ~(Executed[m].action = "reassign"
                              /\ Executed[m].new_issue = Executed[j].issue))
                => issues[Executed[j].issue].status = "completed"

\* C8 witness: a reassign that follows a mark_complete and another worker's
\* action in the array has just been executed.
C8_Witness ==
    /\ pc = "exec"
    /\ Len(Executed) >= 4
    /\ Executed[Len(Executed)].action = "reassign"
    /\ \E j \in 1..Len(Executed) : Executed[j].action = "mark_complete"

\* C9: when issue 53 is pending, depends on 52 and comes before every other
\* pending issue in (wave, priority) order, and the worker on 52 is observed
\* finished with exit code 0 and a new commit, the cycle emits in this order
\* push(52), mark_complete(52) and the reassign of that worker to 53.
C9_ScenarioB ==
    [][(/\ CollectAndDecide
        /\ 52 \in depends_on(53)
        /\ issues[53].status = "pending"
        /\ \A i \in Issues \ {53} :
              issues[i].status = "pending" => ~key_le(issues, i, 53))
       => \A w \in Workers :
             (/\ Observed(w).issue_number = 52
              /\ ~Observed(w).claude_running
              /\ Observed(w).signal_file_exists
              /\ Observed(w).exit_code = 0
              /\ Observed(w).new_commits > 0)
             => \E k \in 1..(Len(decisions') - 2) :
                   /\ decisions'[k] = Action("push", w, 52, Null)
                   /\ decisions'[k + 1] =
                         Action("mark_complete", Null, 52, Null)
                   /\ decisions'[k + 2] =
                         Action("reassign", w, Null, 53)]_vars

\* An issue's branch is published: origin has the worktree's commits.
Published(i) == worktree_commits[i] > 0 /\ remote[i] = worktree_commits[i]

\* C10: executing push for an already published branch, or mark_complete for
\* an already completed issue, appends nothing to the event log and changes no
\* worker or issue state.
C10_Idempotence ==
    [][(\/ ExecPush /\ Published(Decision.issue)
        \/ ExecMarkComplete /\ issues[Decision.issue].status = "completed")
       => /\ event_log' = event_log
          /\ workers' = workers
          /\ issues' = issues
          /\ remote' = remote]_vars

\* One decision of the array is executed by this step, whatever its type.
ExecutesOne ==
    \/ ExecNoop
    \/ ExecPush
    \/ ExecMarkComplete
    \/ ExecReassign
    \/ ExecRestart
    \/ ExecSkip
    \/ ExecIdle

\* C11: the execution of every action, of every type, appends exactly one
\* record to the event log.
C11_EveryActionLogged ==
    [][ExecutesOne => Len(event_log') = Len(event_log) + 1]_vars

C13_LogTruncated ==
    [][(ExecRestart \/ (ExecReassign /\ Decision.new_issue # Null))
          => log_size'[Decision.worker] = 0]_vars

\* C14: after a restart or a reassign the worker's signal file is absent
\* until the process these started ends: a worker whose process is running
\* has no signal file.
C14_SignalConsumed ==
    \A w \in Workers : claude_running[w] => ~signal_file[w].exists

\* The pending issues whose depends_on are all completed, in the
\* configuration as it stands.
ReadyIssues ==
    {i \in Issues : /\ issues[i].status = "pending"
                    /\ \A d \in depends_on(i) : issues[d].status = "completed"}

\* Worker w was skipped: its state is failed and so is its issue.
Skipped(w) ==
    /\ workers[w].status = "failed"
    /\ issues[workers[w].issue_number].status = "failed"

\* C15: in a cycle that follows the skip of a worker, the decision for that
\* worker is a reassign to a ready issue, or idle when no issue is ready.
C15_SkipFreesWorker ==
    [][CollectAndDecide =>
         \A w \in Workers :
            Skipped(w) =>
               LET ds == DecisionsFor(decisions', w)
               IN /\ Len(ds) = 1
                  /\ \/ ds[1].action = "reassign" /\ ds[1].new_issue \in ReadyIssues
                     \/ ds[1].action = "idle"
                  /\ (ReadyIssues = {}) => ds[1].action = "idle"]_vars

\* C16: an issue whose status is completed or failed keeps that status in
\* every later state, and no issue leaves the configuration.
C16_TerminalPermanent ==
    [][/\ DOMAIN issues' = Issues
       /\ \A i \in Issues :
             issues[i].status \in {"completed", "failed"} =>
                issues'[i].status = issues[i].status]_vars

Reassigned(ds) ==
    LET rs == SelectSeq(ds, LAMBDA d : d.action = "reassign")
    IN [k \in 1..Len(rs) |-> rs[k].new_issue]

\* The ready issues in the order of get_next_issue.
ReadyOrder == SelectSeq(sort_by(issues, ConfigOrder), LAMBDA i : i \in ReadyIssues)

\* C18: the reassign actions of one cycle, which come in ascending worker
\* order, hand out the ready issues in their order, one each: the k-th
\* reassign names the k-th ready issue, so no issue is named twice.
C18_GreedyDistinct ==
    [][CollectAndDecide =>
         LET rs == Reassigned(decisions')
         IN /\ Len(rs) <= Len(ReadyOrder)
            /\ \A k \in 1..Len(rs) : rs[k] = ReadyOrder[k]
            /\ \A j, k \in 1..Len(rs) : j # k => rs[j] # rs[k]]_vars

\* Issue i comes before issue j in the order (wave, priority, id).
Before(i, j) ==
    \/ issues[i].wave < issues[j].wave
    \/ /\ issues[i].wave = issues[j].wave
       /\ \/ issues[i].priority < issues[j].priority
          \/ issues[i].priority = issues[j].priority /\ i < j

\* C19: the issue get_next_issue returns is the first, in the order (wave,
\* priority, id), of the pending issues whose depends_on are all completed,
\* and there is none exactly when no such issue exists.
C19_NextIssueOrder ==
    pc = "selected" =>
       LET next == decisions[1].new_issue
       IN IF ReadyIssues = {}
          THEN next = Null
          ELSE /\ next \in ReadyIssues
               /\ \A i \in ReadyIssues \ {next} : Before(next, i)

\* C20: launch puts every worker on a distinct issue of initial_assignments
\* at once, and once the first monitor cycle is over none of these issues has
\* status pending.
C20_ScenarioA ==
    Launched =>
       /\ cycle = 0 =>
             /\ \A w \in Workers :
                   /\ workers[w].issue_number = initial_assignments[w]
                   /\ workers[w].status = "running"
             /\ \A v, w \in Workers :
                   v # w => workers[v].issue_number # workers[w].issue_number
       /\ (cycle >= 1 /\ pc \in {"collect", "done"}) =>
             \A i \in LaunchedIssues : issues[i].status # "pending"

\* A push of issue i was executed and failed: a push is emitted only for a
\* worktree with commits, and origin has none of them.
PushFailed(i) == remote[i] = 0

\* C21: when the push of a cycle's array has failed, the cycle executes no
\* mark_complete of that issue and no reassign of that worker after it.
C21_FailedPushKeepsState ==
    pc = "exec" =>
       \A j \in 1..Len(Executed) :
          (Executed[j].action = "push" /\ PushFailed(Executed[j].issue)) =>
             \A m \in (j + 1)..Len(Executed) :
                /\ ~(/\ Executed[m].action = "mark_complete"
                      /\ Executed[m].issue = Executed[j].issue)
                /\ ~(/\ Executed[m].action = "reassign"
                      /\ Executed[m].worker = Executed[j].worker)

\* C22: the execution of mark_complete for an issue whose status is pending
\* is rejected: it leaves the issues of the configuration unchanged.
C22_MarkRejectsPending ==
    [][(ExecMarkComplete /\ issues[Decision.issue].status = "pending")
          => issues' = issues]_vars

\* A worker observed with its process not running and no signal file.
ObservedOrphaned(w) ==
    /\ ~Observed(w).claude_running
    /\ ~Observed(w).signal_file_exists

\* C23: for a worker observed orphaned the cycle emits exactly one action,
\* restart when its retry_count is below MaxRetries and skip otherwise.
C23_OrphanHandled ==
    [][CollectAndDecide =>
         \A w \in Workers :
            ObservedOrphaned(w) =>
               /\ Len(DecisionsFor(decisions', w)) = 1
               /\ DecisionsFor(decisions', w)[1].action =
                     IF workers[w].retry_count < MaxRetries
                     THEN "restart" ELSE "skip"]_vars

PossibleDecisions ==
    {make_decisions(build_status_report, retry, exclusive) :
        retry \in [Workers -> {"restart", "skip"}],
        exclusive \in [Workers -> BOOLEAN]}

\* C25: the decision step is a function of the status report: whenever a
\* cycle is about to collect and decide, one action array only can result.
C25_DecisionsDeterministic ==
    (pc = "collect" /\ cycle < MaxCycles) => Cardinality(PossibleDecisions) = 1

\* A reassign of worker w that stopped after its first write: the state file
\* names an issue that neither the launch nor any logged reassign gave to w.
PartlyReassigned(w) ==
    /\ workers[w].issue_number # initial_assignments[w]
    /\ workers[w].issue_number # Null
    /\ ~\E k \in 1..Len(event_log) :
          /\ event_log[k].action = "reassign"
          /\ event_log[k].worker = w
          /\ event_log[k].issue = workers[w].issue_number

\* C26: a cycle that a partly applied reassign was handed down to (the monitor
\* was killed between the writes and started again) ends in a state in which
\* no issue is held by two workers and every in_progress issue is held.
C26_CrashSafety ==
    [][(/\ pc = "exec"
        /\ pc' \in {"collect", "done"}
        /\ next_decision > Len(decisions)
        /\ \E w \in Workers : PartlyReassigned(w))
       => /\ \A v, w \in Workers :
                v # w => workers'[v].issue_number # workers'[w].issue_number
          /\ \A i \in Issues :
                issues'[i].status = "in_progress" => Holders(i)' # {}]_vars

\* Issue j is reached from issue i by at most n steps along depends_on.
RECURSIVE DependsWithin(_, _, _, _)
DependsWithin(cfg, i, j, n) ==
    /\ n > 0
    /\ \/ j \in cfg[i].depends_on
       \/ \E k \in cfg[i].depends_on \cap Issues :
             DependsWithin(cfg, k, j, n - 1)

UndefinedDependency(cfg) == \E i \in Issues : ~(cfg[i].depends_on \subseteq Issues)

DependencyCycle(cfg) ==
    \E i \in Issues : DependsWithin(cfg, i, i, Cardinality(Issues))

\* C27: with a configuration that names an undefined dependency or has a
\* dependency cycle, the launch script stops at load_config: no worker is
\* launched and no monitor cycle runs.
C27_ConfigErrorFatal ==
    (UndefinedDependency(issues) \/ DependencyCycle(issues))
        => /\ pc = "launch"
           /\ \A w \in Workers : ~claude_running[w] /\ workers[w] = NoRecord
           /\ cycle = 0

\* C28: a dry run of the launch script (a step that starts where the launch
\* starts and starts nothing) leaves the worker records, the issue records,
\* the signal files, the logs, the worktrees and the session as they were.
C28_DryRunNoSideEffects ==
    [][(pc = "launch" /\ pc' = "launch")
       => UNCHANGED <<workers, issues, signal_file, log_stale, log_size,
                      worktree_commits, claude_running>>]_vars

\* The ids of the tasks that ParseTasks lists from a file.
Listed(lines) == {ParseTasks(lines)[k].ID : k \in 1..Len(ParseTasks(lines))}

OthersStay(id) ==
    \A other \in TaskIds \ {id} :
        /\ other \in Listed(task_files.backlog)' <=>
               other \in Listed(task_files.backlog)
        /\ other \in Listed(task_files.active)' <=>
               other \in Listed(task_files.active)
        /\ other \in Listed(task_files.completed)' <=>
               other \in Listed(task_files.completed)

\* C29: StartTask(id) of a task of the backlog leaves it listed in active and
\* not in the backlog; CompleteTask(id) of an active task leaves it listed in
\* completed and not in active; every other task is listed where it was.
C29_TaskLifecycle ==
    [][\A id \in TaskIds :
          /\ StartTask(id) =>
                /\ id \in Listed(task_files.active)'
                /\ id \notin Listed(task_files.backlog)'
                /\ OthersStay(id)
          /\ CompleteTask(id) =>
                /\ id \in Listed(task_files.completed)'
                /\ id \notin Listed(task_files.active)'
                /\ OthersStay(id)]_vars

\* C30: a restart never removes a completion signal that the snapshot of its
\* cycle did not show: whenever the restart of a worker is executed while the
\* worker's signal file exists, the cycle's status report has that file.
C30_NoSignalLost ==
    [][(Executing("restart") /\ next_decision' = next_decision + 1
            /\ signal_file[Decision.worker].exists)
       => /\ status_report.workers[Decision.worker].signal_file_exists
          /\ status_report.workers[Decision.worker].exit_code =
                signal_file[Decision.worker].exit_code]_vars

\* Worker w was put to idle, or failed by a skip, and still holds its issue.
Retired(w) == workers[w].status \in {"idle", "failed"}

\* C31: once a worker was put to idle or marked failed by a skip, no push,
\* restart or skip is executed for it and no mark_complete for the issue it
\* holds, whatever later snapshots show of its old signal file and commits.
C31_PublishedOnce ==
    [][(/\ pc = "exec"
        /\ next_decision <= Len(decisions)
        /\ next_decision' = next_decision + 1)
       => /\ Decision.action \in {"push", "restart", "skip"}
                => ~Retired(Decision.worker)
          /\ Decision.action = "mark_complete"
                => \A w \in Holders(Decision.issue) : ~Retired(w)]_vars


\* A pending issue waits for an issue that has failed.
Blocked ==
    \E i \in Issues :
        /\ issues[i].status = "pending"
        /\ \E d \in issues[i].depends_on \cap Issues : issues[d].status = "failed"

C33_ShutdownSafety ==
    /\ pc = "done" =>
          /\ \A i \in Issues : issues[i].status \notin {"pending", "in_progress"}
          /\ \A w \in Workers : workers[w].status # "running"
          /\ event_log # <<>>
          /\ event_log[Len(event_log)].action = "shutdown"
    /\ \A k \in 1..Len(event_log) :
          event_log[k].action = "shutdown" => pc = "done" /\ k = Len(event_log)

C33_Witness ==
    /\ pc = "done"
    /\ \E i \in Issues : issues[i].status = "failed"
    /\ \E i \in Issues : issues[i].status = "completed"

\* C34: an executed reassign of worker w to issue n leaves w's record with
\* issue n, running, retry_count 0, last_log_size 0 and no commits, and issue n
\* in_progress and assigned to w; every other worker record and every other
\* issue is as before.
C34_ReassignFrame ==
    [][(/\ Executing("reassign")
        /\ Decision.new_issue # Null
        /\ next_decision' = next_decision + 1)
       => LET w == Decision.worker
              n == Decision.new_issue
          IN /\ workers'[w] = [issue_number |-> n, status |-> "running",
                               retry_count |-> 0, last_log_size |-> 0,
                               commits |-> 0]
             /\ issues'[n].status = "in_progress"
             /\ issues'[n].assigned_worker = w
             /\ \A v \in Workers \ {w} : workers'[v] = workers[v]
             /\ \A i \in Issues \ {n} : issues'[i] = issues[i]]_vars

\* A worker that had been restarted was reassigned, while the other worker
\* holds another issue.
C34_Witness ==
    \E w \in Workers :
        /\ \E k \in 1..Len(event_log) :
              /\ event_log[k].action = "reassign"
              /\ event_log[k].worker = w
              /\ event_log[k].issue = workers[w].issue_number
              /\ \E j \in 1..(k - 1) :
                    event_log[j].action = "restart" /\ event_log[j].worker = w
        /\ issues[workers[w].issue_number].assigned_worker = w
        /\ \E v \in Workers : workers[v].issue_number # workers[w].issue_number

\* C35: whatever the decision step yields, the cycle goes on to execute it
\* with the records, signals, logs and the event log as they were, and an
\* action of an unknown type is passed over with nothing changed and the next
\* action of the array up for execution.
C35_UnusableOutputHarmless ==
    [][/\ (pc = "collect" /\ cycle' = cycle + 1)
            => /\ pc' = "exec"
               /\ UNCHANGED <<issues, workers, signal_file, log_stale,
                              log_size, event_log>>
       /\ (/\ pc = "exec"
           /\ next_decision <= Len(decisions)
           /\ Decision.action \notin KnownActions
           /\ next_decision' # next_decision)
            => /\ next_decision' = next_decision + 1
               /\ UNCHANGED <<issues, workers, signal_file, log_stale,
                              log_size, event_log, decisions, pc>>]_vars

\* The task files that list a task id.
Places(id) ==
    {f \in {"backlog", "active", "completed"} : id \in Listed(task_files[f])}

\* C36: from task files with pairwise disjoint ids, after every StartTask and
\* CompleteTask each task id is listed in at most one of the three files, and
\* an id that was listed is still listed.
C36_TaskPlacement ==
    [][\A id \in TaskIds :
          /\ Cardinality(Places(id))' <= 1
          /\ Places(id) # {} => Places(id)' # {}]_vars

====
